---- MODULE Spec2Model ----
(***************************************************************************)
(* A model of src/src/flow.py: the Prefect flow "NOAA files: Clean and     *)
(* Calc" that validates station-year CSV objects of an S3 bucket, moves    *)
(* the failing ones under _data_error/ and writes one summary per year.    *)
(*                                                                         *)
(* Object keys are sequences of tokens (a token is a short string that     *)
(* holds no separator unless it is one), so that str.split, the prefix     *)
(* match of a listing, len() and sorted() are computed and not assumed.    *)
(* A CSV body is what pandas.read_csv makes of it: its kind (empty,        *)
(* unparsable, a table), the spatial columns of its header with their      *)
(* cells, and whether the six metric columns are there.                    *)
(***************************************************************************)
EXTENDS Integers, Sequences, FiniteSets, TLC

VARIABLES
    store,      \* the bucket: key -> [body, lm, meta]
    store0,     \* history: the bucket as the run found it
    now,        \* the wall clock, in minutes: a run is over within the minute
    params,     \* the flow's Parameters (lines 365-371)
    flowpc,     \* how far the flow's task graph has run
    folders,    \* result of t1_aws_years
    listing,    \* folder index -> state and result of one aws_all_year_files child
    batches,    \* result of t3_map_prep_l
    workers,    \* batch index -> state of one process_year_files child
    donefiles,  \* state and result of calc_files_done
    calcs,      \* folder index -> state of one calculate_year_csv child
    log,        \* history: the store calls issued so far
    call        \* a single direct call of move_s3_file (its own driver)

vars == <<store, store0, now, params, flowpc, folders, listing, batches,
          workers, donefiles, calcs, log, call>>

\* what only the flow's tasks change
flowvars == <<params, flowpc, folders, listing, batches, workers, donefiles, calcs>>

-----------------------------------------------------------------------------
(* Bounds of the model *)

MaxAge == 2
MaxFiles == 2

-----------------------------------------------------------------------------
(* Keys *)

SEP == "/"
DOT == "."
DASH == "-"

\* The tokens in the order of Python's string comparison (code points):
\* '-' < '.' < '/' < digits < upper case < '_' < lower case.
TokOrder ==
    << "-", ".", "/", "01", "02", "1929", "1930", "X", "_data_error",
       "avg_", "csv", "empty_data_error", "missing_spatial",
       "no_such_key_error", "non_unique_spatial", "sub", "year_average" >>

Tokens == {TokOrder[i] : i \in 1..Len(TokOrder)}

TokRank(t) == CHOOSE i \in 1..Len(TokOrder) : TokOrder[i] = t

\* a < b for two keys, as Python compares the two strings
RECURSIVE KeyLT(_, _)
KeyLT(a, b) ==
    IF b = <<>> THEN FALSE
    ELSE IF a = <<>> THEN TRUE
    ELSE IF Head(a) = Head(b) THEN KeyLT(Tail(a), Tail(b))
    ELSE TokRank(Head(a)) < TokRank(Head(b))

\* list(sorted(S)) for a set of keys
RECURSIVE Sorted(_)
Sorted(S) ==
    IF S = {} THEN <<>>
    ELSE LET m == CHOOSE x \in S : \A y \in S : x = y \/ KeyLT(x, y)
         IN  <<m>> \o Sorted(S \ {m})

\* len(key): the number of characters
RECURSIVE CharLen(_)
CharLen(k) == IF k = <<>> THEN 0 ELSE Len(Head(k)) + CharLen(Tail(k))

\* key.startswith(prefix)
StartsWith(k, p) == Len(p) <= Len(k) /\ SubSeq(k, 1, Len(p)) = p

\* "word" in key, for a word that is one token
Contains(k, word) == \E i \in 1..Len(k) : k[i] = word

\* key.split(sep): the list of the parts between the separators
RECURSIVE Split(_, _)
Split(k, sep) ==
    IF \A i \in 1..Len(k) : k[i] # sep THEN <<k>>
    ELSE LET p == CHOOSE i \in 1..Len(k) :
                      k[i] = sep /\ \A j \in 1..(i - 1) : k[j] # sep
         IN  <<SubSeq(k, 1, p - 1)>> \o Split(SubSeq(k, p + 1, Len(k)), sep)

\* Python values that are not keys
UNBOUND == <<"<unbound>">>      \* a local name that was never assigned
NONE == <<"<None>">>            \* None
SENTINEL == <<"X">>             \* the string "X"

DataKey(year, id) == <<year, SEP, id, DOT, "csv">>
SummaryKey(year_folder) == <<"year_average", SEP, "avg_">> \o year_folder \o <<DOT, "csv">>
ErrorMarker == <<"_data_error", SEP>>
ErrorKey(year, number, note) ==
    <<"_data_error", SEP>> \o year \o <<DASH>> \o number \o <<DASH, note, DOT, "csv">>

-----------------------------------------------------------------------------
(* CSV bodies as pandas reads them *)

SpatialCols == <<"STATION", "LATITUDE", "LONGITUDE", "ELEVATION">>
NAN == "nan"

\* the body put_object writes at line 144
EmptyBody == [kind |-> "empty", cols |-> <<>>, meas |-> FALSE, rows |-> <<>>]
BadBody == [kind |-> "bad", cols |-> <<>>, meas |-> FALSE, rows |-> <<>>]
Table(cols) == [kind |-> "csv", cols |-> cols, meas |-> TRUE, rows |-> <<>>]

\* Series.unique(): the distinct cells in order of first appearance; the
\* missing cells (NaN) count as one value
RECURSIVE unique(_)
unique(column) ==
    IF column = <<>> THEN <<>>
    ELSE LET front == unique(SubSeq(column, 1, Len(column) - 1))
             last == column[Len(column)]
         IN  IF \E i \in 1..Len(front) : front[i] = last
             THEN front ELSE Append(front, last)

\* Series.eq(Series.iloc[0]).all(): NaN equals nothing, itself included
EqFirstAll(column) ==
    \A i \in 1..Len(column) : column[i] = column[1] /\ column[i] # NAN

-----------------------------------------------------------------------------
(* The two spatial checks.  A check returns [exc, ret]: the exception that *)
(* leaves the function ("ok" for none) and the value returned.             *)

Ok(v) == [exc |-> "ok", ret |-> v]
Raise(e) == [exc |-> e, ret |-> NONE]

MinOf(S) == CHOOSE i \in S : \A j \in S : i <= j

\* lines 114-118; value_l[0] of a table without rows is an IndexError
column_unique_values_check(column) ==
    LET value_l == unique(column)
    IN  IF Len(value_l) > 1 THEN [exc |-> "ok", ret |-> "X"]
        ELSE IF Len(value_l) = 0 THEN [exc |-> "IndexError", ret |-> "X"]
        ELSE [exc |-> "ok", ret |-> value_l[1]]

\* lines 77-111: the four columns are read and reduced before any of the
\* four tests; only EmptyDataError and ParserError are caught
unique_values_spatial_check(filename, data) ==
    IF data.kind = "empty" THEN Ok(SENTINEL)
    ELSE IF data.kind = "bad" THEN Ok(SENTINEL)
    ELSE LET r == [i \in 1..Len(SpatialCols) |->
                     IF SpatialCols[i] \in DOMAIN data.cols
                     THEN column_unique_values_check(data.cols[SpatialCols[i]])
                     ELSE [exc |-> "KeyError", ret |-> "X"]]
             failed == {i \in 1..Len(SpatialCols) : r[i].exc # "ok"}
         IN  IF failed # {} THEN Raise(r[MinOf(failed)].exc)
             ELSE IF \E i \in 1..Len(SpatialCols) : r[i].ret = "X"
                  THEN Ok(filename)
                  ELSE Ok(NONE)

\* lines 68-74: the `or` chain stops at the first column that disagrees
RECURSIVE CleanFrom(_, _, _)
CleanFrom(filename, data, i) ==
    IF i > Len(SpatialCols) THEN Ok(NONE)
    ELSE LET c == SpatialCols[i]
         IN  IF c \notin DOMAIN data.cols THEN Raise("KeyError")
             ELSE IF data.cols[c] = <<>> THEN Raise("IndexError")
             ELSE IF ~EqFirstAll(data.cols[c]) THEN Ok(filename)
             ELSE CleanFrom(filename, data, i + 1)

\* lines 61-74: nothing is caught here
csv_clean_spatial_check(filename, data) ==
    IF data.kind = "empty" THEN Raise("EmptyDataError")
    ELSE IF data.kind = "bad" THEN Raise("ParserError")
    ELSE CleanFrom(filename, data, 1)

-----------------------------------------------------------------------------
(* The bucket *)

Object(body, t, meta) == [body |-> body, lm |-> t, meta |-> meta]

\* a variant that adds the lines to those of the object already there
put_appends(s, k, body, t) ==
    [x \in DOMAIN s \cup {k} |->
        IF x # k THEN s[x]
        ELSE IF k \in DOMAIN s
             THEN Object([body EXCEPT !.rows = s[k].body.rows \o body.rows], t, <<>>)
             ELSE Object(body, t, <<>>)]

\* s3_client.put_object(Body, Key)
put_object(s, k, body, t) ==
    [x \in DOMAIN s \cup {k} |-> IF x = k THEN Object(body, t, <<>>) ELSE s[x]]

\* bucket.copy(copy_source, dst), source present: body and metadata copied
copy(s, src, dst, t) ==
    [x \in DOMAIN s \cup {dst} |->
        IF x = dst THEN Object(s[src].body, t, s[src].meta) ELSE s[x]]

\* Object.copy_from(CopySource = itself, MetadataDirective = "REPLACE")
copy_from_replace(s, k, t) ==
    [x \in DOMAIN s |-> IF x = k THEN Object(s[k].body, t, <<t>>) ELSE s[x]]

\* Object(bucket, k).delete(): a missing key is no error
delete(s, k) == [x \in DOMAIN s \ {k} |-> s[x]]

\* Prefix listing (paginator over list_objects_v2)
KeysUnder(s, prefix) == {k \in DOMAIN s : StartsWith(k, prefix)}

-----------------------------------------------------------------------------
(* move_s3_file, lines 138-156, one store call per step.  A frame is       *)
(* [filename, note, pc]; a step returns the store, the next pc and the     *)
(* exception that leaves move_s3_file ("ok" for none).                     *)

Notes == {"non_unique_spatial", "missing_spatial", "empty_data_error", "no_such_key_error"}

\* a variant that keeps the extension in the station number
MoveDestKeepsExt(filename, note) ==
    LET parts == Split(filename, SEP)
    IN  ErrorKey(parts[1], parts[2], note)

\* line 151: the destination of the copy
MoveDest(filename, note) ==
    LET parts == Split(filename, SEP)
        number == Split(parts[2], DOT)[1]
    IN  ErrorKey(parts[1], number, note)

\* a variant that goes from the put of the marker to the delete
MoveStraightToDelete(filename) == [pc |-> "delete", exc |-> "ok"]

\* a variant whose handler swallows no ValueError
MoveAfterPutStrict(filename) ==
    IF filename = NONE THEN [pc |-> "raised", exc |-> "AttributeError"]
    ELSE IF Len(Split(filename, SEP)) # 2 THEN [pc |-> "raised", exc |-> "ValueError"]
    ELSE [pc |-> "copy", exc |-> "ok"]

\* lines 148-155: what follows the put of the marker.  Unpacking one part
\* is the "not enough values" ValueError the handler swallows; unpacking
\* three is "too many values", which it raises again.
MoveAfterPut(filename) ==
    IF filename = NONE THEN [pc |-> "raised", exc |-> "AttributeError"]
    ELSE LET n == Len(Split(filename, SEP))
         IN  IF n < 2 THEN [pc |-> "delete", exc |-> "ok"]
             ELSE IF n > 2 THEN [pc |-> "raised", exc |-> "ValueError"]
             ELSE [pc |-> "copy", exc |-> "ok"]

\* line 151: a copy whose source is gone fails with a ClientError (404)
MoveCopyFails(s, filename) == filename \notin DOMAIN s

MoveStep(s, t, fr) ==
    IF fr.pc = "put" THEN
        [store |-> put_object(s, ErrorMarker, EmptyBody, t),
         pc |-> MoveAfterPut(fr.filename).pc,
         exc |-> MoveAfterPut(fr.filename).exc]
    ELSE IF fr.pc = "copy" THEN
        IF MoveCopyFails(s, fr.filename)
        THEN [store |-> s, pc |-> "raised", exc |-> "ClientError"]
        ELSE [store |-> copy(s, fr.filename, MoveDest(fr.filename, fr.note), t),
              pc |-> "delete", exc |-> "ok"]
    ELSE
        [store |-> delete(s, fr.filename), pc |-> "returned", exc |-> "ok"]

-----------------------------------------------------------------------------
(* Bodies and keys the initial buckets are drawn from *)

Col2(x, y) == <<x, y>>

AllCols(column) == [c \in {SpatialCols[i] : i \in 1..Len(SpatialCols)} |-> column]

ValidBody == Table(AllCols(Col2("a", "a")))
OtherValidBody == Table(AllCols(Col2("b", "b")))

Years == {"1929", "1930"}
Ids == {"01", "02"}
DataKeys == {DataKey(y, id) : y \in Years, id \in Ids}

\* keys of other shapes: no separator, two separators, a folder marker,
\* no extension
BareKey == <<"1929", DOT, "csv">>
NestedKey == <<"1929", SEP, "sub", SEP, "01", DOT, "csv">>
FolderMarker == <<"1929", SEP>>
NoExtKey == <<"1930", SEP, "01">>

\* the buckets of at most MaxFiles objects over the keys K with bodies B
Buckets(K, B) ==
    UNION { [S -> {Object(b, 0, <<>>) : b \in B}] :
              S \in {T \in SUBSET K : Cardinality(T) <= MaxFiles} }

-----------------------------------------------------------------------------
(* Values of the variables a specification leaves idle *)

DefaultParams ==
    [list_size |-> 1, total_processed |-> 0, min_old |-> 1,
     time_less_than |-> TRUE, calc_all |-> FALSE]

IdleCall ==
    [filename |-> NONE, note |-> "", pc |-> "idle", exc |-> "ok", n |-> 0,
     entry |-> <<>>, first |-> <<>>]

IdleTask == [pc |-> "idle", tries |-> 0, exc |-> "ok", result |-> <<>>]

FlowIdle ==
    /\ params = DefaultParams
    /\ flowpc = "idle"
    /\ folders = <<>>
    /\ listing = <<>>
    /\ batches = <<>>
    /\ workers = <<>>
    /\ donefiles = IdleTask
    /\ calcs = <<>>
    /\ log = {}

-----------------------------------------------------------------------------
(* Direct calls of move_s3_file(filename, bucket, client, note): one call, *)
(* then (at most MaxCalls - 1 times) another on the same key.              *)

MaxCalls == 2

MoveKeys == {DataKey("1929", "01"), DataKey("1930", "02"), SENTINEL,
             BareKey, NestedKey, FolderMarker, NoExtKey}

InitMove ==
    /\ store \in Buckets(MoveKeys \cup {ErrorKey(<<"1929">>, <<"01">>, "missing_spatial")},
                         {ValidBody, OtherValidBody})
    /\ store0 = store
    /\ now = 0
    /\ call = IdleCall
    /\ FlowIdle

MoveCall(k, note) ==
    /\ call.pc \in {"idle", "returned", "raised"}
    /\ call.n < MaxCalls
    /\ call.n > 0 => k = call.filename
    /\ call' = [filename |-> k, note |-> note, pc |-> "put", exc |-> "ok",
                n |-> call.n + 1, entry |-> <<store>>,
                first |-> IF call.n = 1
                          THEN <<[store |-> store, note |-> call.note, pc |-> call.pc]>>
                          ELSE call.first]
    /\ UNCHANGED <<store, store0, now, flowvars, log>>

MoveRun ==
    /\ call.pc \in {"put", "copy", "delete"}
    /\ LET r == MoveStep(store, now, call)
       IN  /\ store' = r.store
           /\ call' = [call EXCEPT !.pc = r.pc, !.exc = r.exc]
    /\ UNCHANGED <<store0, now, flowvars, log>>

NextMove ==
    \/ \E k \in MoveKeys, note \in Notes : MoveCall(k, note)
    \/ MoveRun

SpecMove == InitMove /\ [][NextMove]_vars

-----------------------------------------------------------------------------
(* process_year_files, lines 255-299: one mapped child per batch, one      *)
(* store call per step.  The locals non_unique_spatial (nus) and           *)
(* spatial_errors (se) live across the iterations of the loop; a retry     *)
(* runs the function again from its first line.                            *)

MaxRetries == 5

Event(task, idx, file, op, key, note) ==
    [task |-> task, idx |-> idx, file |-> file, op |-> op, key |-> key, note |-> note]

NewWorker(files_l) ==
    [files |-> files_l, i |-> 1,
     pc |-> IF files_l = <<>> THEN "success" ELSE "get1",
     nus |-> UNBOUND, se |-> UNBOUND,
     filename |-> NONE, note |-> "", stamp |-> 0,
     miss |-> FALSE, tries |-> 0, exc |-> "ok"]

\* a variant that passes over the short keys only
SkippedShort(filename) == CharLen(filename) <= 5

\* lines 261-264: the keys the loop passes over
Skipped(filename) ==
    \/ CharLen(filename) <= 5
    \/ Contains(filename, "year_average")
    \/ Contains(filename, "_data_error")

\* the next iteration of the loop at line 260, or the end of the task
Advance(wk) ==
    [wk EXCEPT !.i = wk.i + 1, !.miss = FALSE,
               !.pc = IF wk.i + 1 > Len(wk.files) THEN "success" ELSE "get1"]

\* an exception leaves the task: Prefect retries it max_retries times
Fail(wk, e) ==
    [wk EXCEPT !.exc = e,
               !.pc = IF wk.tries < MaxRetries THEN "retrying" ELSE "failed"]

EnterMove(wk, arg, note) ==
    [wk EXCEPT !.pc = "put", !.filename = arg, !.note = note]

\* lines 295-298: both handlers pass spatial_errors, whatever it holds;
\* reading the name before line 276 ever assigned it is an
\* UnboundLocalError
Handler(wk, note) ==
    IF wk.se = UNBOUND THEN Fail(wk, "UnboundLocalError")
    ELSE EnterMove(wk, wk.se, note)

Truthy(v) == v # NONE

\* lines 267-273, the object being there
AfterGet1(wk, filename, data) ==
    LET r == unique_values_spatial_check(filename, data)
    IN  IF r.exc # "ok" THEN Fail(wk, r.exc)
        ELSE IF Truthy(r.ret)
             THEN EnterMove([wk EXCEPT !.nus = r.ret], r.ret, "non_unique_spatial")
             ELSE [wk EXCEPT !.nus = r.ret, !.pc = "get2"]

\* lines 274-280, the object being there
AfterGet2(wk, filename, data) ==
    LET r == csv_clean_spatial_check(filename, data)
    IN  IF r.exc = "EmptyDataError" THEN Handler(wk, "empty_data_error")
        ELSE IF r.exc # "ok" THEN Fail(wk, r.exc)
        ELSE IF Truthy(r.ret)
             THEN EnterMove([wk EXCEPT !.se = r.ret], r.ret, "missing_spatial")
             ELSE [wk EXCEPT !.se = r.ret, !.pc = "head"]

CurFile(w) == workers[w].files[workers[w].i]

WorkerSkip(w) ==
    /\ workers[w].pc = "get1"
    /\ Skipped(CurFile(w))
    /\ workers' = [workers EXCEPT ![w] = Advance(@)]
    /\ UNCHANGED <<store, store0, now, params, flowpc, folders, listing,
                   batches, donefiles, calcs, log, call>>

\* line 267: get_object; a missing key raises NoSuchKey (line 297)
WorkerGet1(w) ==
    /\ workers[w].pc = "get1"
    /\ ~Skipped(CurFile(w))
    /\ LET f == CurFile(w)
           wk == workers[w]
       IN  IF f \in DOMAIN store
           THEN /\ workers' = [workers EXCEPT ![w] = AfterGet1(wk, f, store[f].body)]
                /\ log' = log \cup {Event("clean", w, f, "get", f, "")}
           ELSE /\ workers' = [workers EXCEPT ![w] =
                                Handler([wk EXCEPT !.miss = TRUE], "no_such_key_error")]
                /\ log' = log \cup {Event("clean", w, f, "get", f, "NoSuchKey")}
    /\ UNCHANGED <<store, store0, now, params, flowpc, folders, listing,
                   batches, donefiles, calcs, call>>

\* line 274: the second get_object
WorkerGet2(w) ==
    /\ workers[w].pc = "get2"
    /\ LET f == CurFile(w)
           wk == workers[w]
       IN  IF f \in DOMAIN store
           THEN /\ workers' = [workers EXCEPT ![w] = AfterGet2(wk, f, store[f].body)]
                /\ log' = log \cup {Event("clean", w, f, "get", f, "")}
           ELSE /\ workers' = [workers EXCEPT ![w] =
                                Handler([wk EXCEPT !.miss = TRUE], "no_such_key_error")]
                /\ log' = log \cup {Event("clean", w, f, "get", f, "NoSuchKey")}
    /\ UNCHANGED <<store, store0, now, params, flowpc, folders, listing,
                   batches, donefiles, calcs, call>>

\* lines 282-287: s3_object.metadata loads the object (a HEAD request, a
\* ClientError when the key is gone) and the timestamp is taken
WorkerHead(w) ==
    /\ workers[w].pc = "head"
    /\ LET f == CurFile(w)
           wk == workers[w]
       IN  /\ workers' = [workers EXCEPT ![w] =
                            IF f \in DOMAIN store
                            THEN [wk EXCEPT !.pc = "copy_from", !.stamp = now]
                            ELSE Fail(wk, "ClientError")]
           /\ log' = log \cup {Event("clean", w, f, "head", f, "")}
    /\ UNCHANGED <<store, store0, now, params, flowpc, folders, listing,
                   batches, donefiles, calcs, call>>

\* lines 290-294: the copy onto itself that replaces the metadata; a
\* source that is gone is the NoSuchKey of line 297
WorkerCopyFrom(w) ==
    /\ workers[w].pc = "copy_from"
    /\ LET f == CurFile(w)
           wk == workers[w]
       IN  IF f \in DOMAIN store
           THEN /\ store' = [copy_from_replace(store, f, now) EXCEPT
                                ![f].meta = <<wk.stamp>>]
                /\ workers' = [workers EXCEPT ![w] = Advance(wk)]
                /\ log' = log \cup {Event("clean", w, f, "touch", f, "")}
           ELSE /\ store' = store
                /\ workers' = [workers EXCEPT ![w] =
                                Handler([wk EXCEPT !.miss = TRUE], "no_such_key_error")]
                /\ log' = log \cup {Event("clean", w, f, "touch", f, "NoSuchKey")}
    /\ UNCHANGED <<store0, now, params, flowpc, folders, listing,
                   batches, donefiles, calcs, call>>

\* one store call of the move_s3_file a worker is in; whatever leaves
\* move_s3_file leaves the task
WorkerMove(w) ==
    /\ workers[w].pc \in {"put", "copy", "delete"}
    /\ LET wk == workers[w]
           r == MoveStep(store, now, wk)
       IN  /\ store' = r.store
           /\ workers' = [workers EXCEPT ![w] =
                            IF r.exc # "ok" THEN Fail(wk, r.exc)
                            ELSE IF r.pc = "returned" THEN Advance(wk)
                            ELSE [wk EXCEPT !.pc = r.pc]]
           /\ log' = log \cup {Event("clean", w, CurFile(w), wk.pc, wk.filename, wk.note)}
    /\ UNCHANGED <<store0, now, params, flowpc, folders, listing,
                   batches, donefiles, calcs, call>>

\* the retry of a failed child: process_year_files runs again, its locals new
WorkerRetry(w) ==
    /\ workers[w].pc = "retrying"
    /\ workers' = [workers EXCEPT ![w] =
                     [NewWorker(@.files) EXCEPT !.tries = workers[w].tries + 1]]
    /\ UNCHANGED <<store, store0, now, params, flowpc, folders, listing,
                   batches, donefiles, calcs, log, call>>

-----------------------------------------------------------------------------
(* process_year_files on its own: one batch holding the keys of the        *)
(* bucket in sorted order.                                                 *)

ColSet == {SpatialCols[i] : i \in 1..Len(SpatialCols)}

\* the columns a table is built from: two rows that agree, disagree, hold
\* the string "X", are missing, or are missing in one row; one row; none
Columns2 == {Col2("a", "a"), Col2("a", "b"), Col2("X", "X"), Col2(NAN, NAN),
             Col2("a", NAN), Col2(NAN, "a")}
Columns1 == {<<"a">>, <<"X">>, <<NAN>>}
Columns0 == {<<>>}

\* every table whose header holds some of the spatial columns
TablesOver(columns) ==
    {Table(cols) : cols \in UNION {[S -> columns] : S \in SUBSET ColSet}}

AllBodies ==
    TablesOver(Columns2) \cup TablesOver(Columns1) \cup TablesOver(Columns0)
        \cup {EmptyBody, BadBody}

NonUniqueBody == Table([AllCols(Col2("a", "a")) EXCEPT !["LATITUDE"] = Col2("a", "b")])
NoValueBody == Table([AllCols(Col2("a", "a")) EXCEPT !["ELEVATION"] = Col2(NAN, NAN)])
NoColumnBody == Table([c \in ColSet \ {"ELEVATION"} |-> Col2("a", "a")])
NoRowsBody == Table(AllCols(<<>>))
SentinelBody == Table([AllCols(Col2("a", "a")) EXCEPT !["STATION"] = Col2("X", "X")])

SomeBodies == {ValidBody, NonUniqueBody, NoValueBody, NoColumnBody, NoRowsBody,
               SentinelBody, EmptyBody, BadBody}

ValidateKeys == {DataKey("1929", "01"), DataKey("1929", "02"), FolderMarker,
                 BareKey, SENTINEL, SummaryKey(<<"1929">>), ErrorMarker}

InitValidate ==
    /\ store \in Buckets({DataKey("1929", "01")}, AllBodies)
                    \cup Buckets(ValidateKeys, SomeBodies)
    /\ store # <<>>
    /\ store0 = store
    /\ now = 0
    /\ call = IdleCall
    /\ params = DefaultParams
    /\ flowpc = "t4"
    /\ folders = <<>>
    /\ listing = <<>>
    /\ batches = <<Sorted(DOMAIN store \ {SENTINEL})>>
    /\ workers = <<NewWorker(batches[1])>>
    /\ donefiles = IdleTask
    /\ calcs = <<>>
    /\ log = {}

NextValidate ==
    \/ \E w \in DOMAIN workers : WorkerSkip(w)
    \/ \E w \in DOMAIN workers : WorkerGet1(w)
    \/ \E w \in DOMAIN workers : WorkerGet2(w)
    \/ \E w \in DOMAIN workers : WorkerHead(w)
    \/ \E w \in DOMAIN workers : WorkerCopyFrom(w)
    \/ \E w \in DOMAIN workers : WorkerMove(w)
    \/ \E w \in DOMAIN workers : WorkerRetry(w)

SpecValidate == InitValidate /\ [][NextValidate]_vars

-----------------------------------------------------------------------------
(* The listing tasks and the batcher *)

ListMaxRetries == 5

NewTask == [pc |-> "run", tries |-> 0, exc |-> "ok", result |-> <<>>]

\* a child of t5_calc_complete before its first line has run
NewCalc ==
    [pc |-> "start", tries |-> 0, exc |-> "ok", files |-> <<>>, i |-> 1,
     content |-> <<>>, runs |-> 1]

\* lines 185-201: the common prefixes of the keys that hold a separator,
\* the separator cut off, the empty name dropped, sorted
fetch_aws_folders(s) ==
    Sorted({Split(k, SEP)[1] : k \in {x \in DOMAIN s : Contains(x, SEP)}} \ {<<>>})

\* lines 220-233: the filter on LastModified
InWindow(lm, t, min_old, time_less_than) ==
    IF time_less_than THEN lm > t - min_old ELSE lm < t - min_old

\* lines 205-238: a listing without keys has no "Contents" (KeyError)
aws_all_year_files(s, year, t, min_old, time_less_than) ==
    IF KeysUnder(s, year) = {} THEN Raise("KeyError")
    ELSE Ok(Sorted({k \in KeysUnder(s, year) :
                      InWindow(s[k].lm, t, min_old, time_less_than)}))

\* lines 121-135
aws_year_files(s, year) ==
    IF KeysUnder(s, year) = {} THEN Raise("KeyError")
    ELSE Ok(Sorted(KeysUnder(s, year)))

RECURSIVE Flatten(_)
Flatten(ls) == IF ls = <<>> THEN <<>> ELSE Head(ls) \o Flatten(Tail(ls))

Prefix(l, n) == SubSeq(l, 1, IF n < Len(l) THEN n ELSE Len(l))

\* a variant that yields only the chunks that are full
RECURSIVE chunksFull(_, _)
chunksFull(file_l, list_size) ==
    IF Len(file_l) < list_size THEN <<>>
    ELSE <<Prefix(file_l, list_size)>>
             \o chunksFull(SubSeq(file_l, list_size + 1, Len(file_l)), list_size)

\* lines 243-246
RECURSIVE chunks(_, _)
chunks(file_l, list_size) ==
    IF file_l = <<>> THEN <<>>
    ELSE <<Prefix(file_l, list_size)>>
             \o chunks(SubSeq(file_l, list_size + 1, Len(file_l)), list_size)

\* lines 248-252
aws_lists_prep_for_map(file_l, list_size, total_processed) ==
    chunks(Prefix(Flatten(file_l), total_processed), list_size)

FailTask(tk, e, max) ==
    [tk EXCEPT !.exc = e, !.pc = IF tk.tries < max THEN "retrying" ELSE "failed"]

\* t1_aws_years (line 372)
FetchFolders ==
    /\ flowpc = "t1"
    /\ folders' = fetch_aws_folders(store)
    /\ listing' = [i \in 1..Len(fetch_aws_folders(store)) |-> NewTask]
    /\ flowpc' = "t2"
    /\ log' = log \cup {Event("folders", 0, <<>>, "list", <<>>, "")}
    /\ UNCHANGED <<store, store0, now, params, batches, workers, donefiles, calcs, call>>

\* one child of t2_all_files (lines 373-375)
ListYear(i) ==
    /\ flowpc = "t2"
    /\ listing[i].pc = "run"
    /\ LET r == aws_all_year_files(store, folders[i], now, params.min_old,
                                   params.time_less_than)
       IN  listing' = [listing EXCEPT ![i] =
                         IF r.exc # "ok" THEN FailTask(@, r.exc, ListMaxRetries)
                         ELSE [@ EXCEPT !.pc = "success", !.result = r.ret]]
    /\ log' = log \cup {Event("files", i, <<>>, "list", folders[i], "")}
    /\ UNCHANGED <<store, store0, now, params, flowpc, folders, batches, workers,
                   donefiles, calcs, call>>

\* t3_map_prep_l (line 376) once every child of t2 has succeeded; the
\* children of t4 and t5 and calc_files_done are created
PrepBatches ==
    /\ flowpc = "t2"
    /\ \A i \in DOMAIN listing : listing[i].pc = "success"
    /\ LET b == aws_lists_prep_for_map([i \in DOMAIN listing |-> listing[i].result],
                                       params.list_size, params.total_processed)
       IN  /\ batches' = b
           /\ workers' = [w \in DOMAIN b |-> NewWorker(b[w])]
    /\ donefiles' = NewTask
    /\ calcs' = [c \in DOMAIN folders |-> NewCalc]
    /\ flowpc' = "t4"
    /\ UNCHANGED <<store, store0, now, params, folders, listing, log, call>>

\* a variant without the edge from t4_clean_complete: the children need
\* only have been created
CleanStarted == flowpc = "t4"

\* t4_clean_complete as an upstream: every mapped child has succeeded
CleanComplete ==
    /\ flowpc = "t4"
    /\ \A w \in DOMAIN workers : workers[w].pc = "success"

\* calc_files_done (lines 378-380), which waits for t4_clean_complete
FilesDone ==
    /\ CleanComplete
    /\ donefiles.pc = "run"
    /\ LET r == aws_all_year_files(store, <<"year_average">>, now, params.min_old,
                                   params.time_less_than)
       IN  donefiles' = IF r.exc # "ok" THEN FailTask(donefiles, r.exc, ListMaxRetries)
                        ELSE [donefiles EXCEPT !.pc = "success", !.result = r.ret]
    /\ log' = log \cup {Event("files_done", 0, <<>>, "list", <<"year_average">>, "")}
    /\ UNCHANGED <<store, store0, now, params, flowpc, folders, listing, batches,
                   workers, calcs, call>>

\* the retry of calc_files_done
FilesDoneRetry ==
    /\ donefiles.pc = "retrying"
    /\ donefiles' = [NewTask EXCEPT !.tries = donefiles.tries + 1]
    /\ UNCHANGED <<store, store0, now, params, flowpc, folders, listing, batches,
                   workers, calcs, log, call>>

-----------------------------------------------------------------------------
(* aws_lists_prep_for_map on its own: t3_map_prep_l applied to any lists   *)
(* of keys, chunk size and limit.                                          *)

MaxLists == 2
MaxKeys == 2

BatchKeys == {DataKey("1929", "01"), DataKey("1930", "01")}

BatchFolders == <<<<"1929">>, <<"1930">>, <<"year_average">>, <<"_data_error">>>>

\* the lists of at most n keys
ListsUpTo(n) == UNION {[1..m -> BatchKeys] : m \in 0..n}

InitBatch ==
    /\ store = <<>>
    /\ store0 = <<>>
    /\ now = 0
    /\ call = IdleCall
    /\ params \in [list_size : 1..(MaxKeys + 1),
                   total_processed : 0..(MaxLists * MaxKeys + 1),
                   min_old : {1}, time_less_than : {TRUE}, calc_all : {FALSE}]
    /\ flowpc = "t2"
    /\ \E n \in 0..MaxLists :
          /\ folders = SubSeq(BatchFolders, 1, n)
          /\ listing \in [1..n -> {[NewTask EXCEPT !.pc = "success", !.result = l] :
                                      l \in ListsUpTo(MaxKeys)}]
    /\ batches = <<>>
    /\ workers = <<>>
    /\ donefiles = IdleTask
    /\ calcs = <<>>
    /\ log = {}

NextBatch == PrepBatches

SpecBatch == InitBatch /\ [][NextBatch]_vars

-----------------------------------------------------------------------------
(* calculate_year_csv, lines 302-336: one mapped child per folder, one     *)
(* store call per step.                                                    *)

CalcMaxRetries == 5

\* the object line 336 writes: the header line and the rows
SummaryBody(content) ==
    [kind |-> "csv", cols |-> <<>>, meas |-> FALSE, rows |-> content]

\* lines 305-309: the year is passed over
CalcSkips(year_folder, finished_files, calc_all) ==
    /\ ~calc_all
    /\ \E i \in 1..Len(finished_files) : finished_files[i] = SummaryKey(year_folder)

\* line 312
LongEnough(files_l) == SelectSeq(files_l, LAMBDA x : CharLen(x) > 6)

\* lines 319-335 on one body: the row added, none for a body pandas
\* cannot read (caught), or the KeyError of a column that is not there
CalcRow(site, data) ==
    IF data.kind \in {"empty", "bad"} THEN Ok(<<>>)
    ELSE IF ~data.meas THEN Raise("KeyError")
    ELSE IF DOMAIN data.cols # {SpatialCols[i] : i \in 1..Len(SpatialCols)}
         THEN Raise("KeyError")
    ELSE Ok(<<[site |-> site,
               spatial |-> [i \in 1..Len(SpatialCols) |-> unique(data.cols[SpatialCols[i]])]]>>)

\* the upstreams of a child of t5_calc_complete (lines 381-388):
\* calc_files_done and every child of t4_clean_complete
CalcMayRun == CleanComplete /\ donefiles.pc = "success"

\* lines 304-312: the skip, or the listing of the year
CalcStart(c) ==
    /\ CalcMayRun
    /\ c \in DOMAIN calcs
    /\ calcs[c].pc = "start"
    /\ IF CalcSkips(folders[c], donefiles.result, params.calc_all)
       THEN /\ calcs' = [calcs EXCEPT ![c].pc = "success"]
            /\ log' = log \cup {Event("calc", c, <<>>, "skip", folders[c], "")}
       ELSE LET r == aws_year_files(store, folders[c])
            IN  /\ calcs' = [calcs EXCEPT ![c] =
                              IF r.exc # "ok" THEN FailTask(@, r.exc, CalcMaxRetries)
                              ELSE [@ EXCEPT !.files = LongEnough(r.ret),
                                             !.pc = IF LongEnough(r.ret) = <<>>
                                                    THEN "put" ELSE "get"]]
                /\ log' = log \cup {Event("calc", c, <<>>, "list", folders[c], "")}
    /\ UNCHANGED <<store, store0, now, params, flowpc, folders, listing, batches,
                   workers, donefiles, call>>

\* lines 317-335 for one site: a key that is gone is an uncaught NoSuchKey
CalcGet(c) ==
    /\ calcs[c].pc = "get"
    /\ LET ck == calcs[c]
           site == ck.files[ck.i]
           r == IF site \in DOMAIN store THEN CalcRow(site, store[site].body)
                ELSE Raise("NoSuchKey")
       IN  /\ calcs' = [calcs EXCEPT ![c] =
                          IF r.exc # "ok" THEN FailTask(ck, r.exc, CalcMaxRetries)
                          ELSE [ck EXCEPT !.content = ck.content \o r.ret,
                                          !.i = ck.i + 1,
                                          !.pc = IF ck.i + 1 > Len(ck.files)
                                                 THEN "put" ELSE "get"]]
           /\ log' = log \cup {Event("calc", c, site, "get", site, "")}
    /\ UNCHANGED <<store, store0, now, params, flowpc, folders, listing, batches,
                   workers, donefiles, call>>

\* line 336
CalcPut(c) ==
    /\ calcs[c].pc = "put"
    /\ store' = put_object(store, SummaryKey(folders[c]), SummaryBody(calcs[c].content), now)
    /\ calcs' = [calcs EXCEPT ![c].pc = "success"]
    /\ log' = log \cup {Event("calc", c, <<>>, "put", SummaryKey(folders[c]), "")}
    /\ UNCHANGED <<store0, now, params, flowpc, folders, listing, batches,
                   workers, donefiles, call>>

\* the retry of a failed child
CalcRetry(c) ==
    /\ calcs[c].pc = "retrying"
    /\ calcs' = [calcs EXCEPT ![c] = [NewCalc EXCEPT !.tries = calcs[c].tries + 1,
                                                     !.runs = calcs[c].runs]]
    /\ UNCHANGED <<store, store0, now, params, flowpc, folders, listing, batches,
                   workers, donefiles, log, call>>

-----------------------------------------------------------------------------
(* calculate_year_csv on its own: runs of one child on a year folder, the  *)
(* validation over, finished_files the keys under year_average/.           *)

MaxRuns == 2

\* a station-year file without the metric columns (TEMP, DEWP, ...)
NoMetricBody == [ValidBody EXCEPT !.meas = FALSE]

CalcBodies == {ValidBody, OtherValidBody, EmptyBody, BadBody, NoMetricBody}

\* a folder whose name begins with the name of another
SubYear == <<"1929", "sub">>

CalcKeys == {DataKey("1929", "01"), DataKey("1929", "02"), FolderMarker,
             SubYear \o <<SEP, "01", DOT, "csv">>}

CalcFolders == {<<"1929">>, <<"1930">>, SubYear}

\* a line of a summary written before
StaleRow == [site |-> SENTINEL, spatial |-> <<>>]

PriorSummaries(year_folder) ==
    {<<>>} \cup {SummaryKey(year_folder) :> Object(SummaryBody(rows), 0, <<>>) :
                    rows \in {<<>>, <<StaleRow>>}}

InitCalc ==
    /\ \E y \in CalcFolders :
          /\ folders = <<y>>
          /\ store \in {d @@ e : d \in Buckets(CalcKeys, CalcBodies),
                                  e \in PriorSummaries(y)}
    /\ store0 = store
    /\ now = 0
    /\ call = IdleCall
    /\ params \in [list_size : {1}, total_processed : {0}, min_old : {1},
                   time_less_than : {TRUE}, calc_all : BOOLEAN]
    /\ flowpc = "t4"
    /\ listing = <<>>
    /\ batches = <<>>
    /\ workers = <<>>
    /\ donefiles = [NewTask EXCEPT !.pc = "success",
                                   !.result = Sorted(KeysUnder(store, <<"year_average">>))]
    /\ calcs = <<NewCalc>>
    /\ log = {}

\* calculate_year_csv is run again on the same folder
CalcAgain(c) ==
    /\ calcs[c].pc \in {"success", "failed"}
    /\ calcs[c].runs < MaxRuns
    /\ calcs' = [calcs EXCEPT ![c] = [NewCalc EXCEPT !.runs = calcs[c].runs + 1]]
    /\ UNCHANGED <<store, store0, now, params, flowpc, folders, listing, batches,
                   workers, donefiles, log, call>>

NextCalc ==
    \/ \E c \in DOMAIN calcs : CalcStart(c)
    \/ \E c \in DOMAIN calcs : CalcGet(c)
    \/ \E c \in DOMAIN calcs : CalcPut(c)
    \/ \E c \in DOMAIN calcs : CalcRetry(c)
    \/ \E c \in DOMAIN calcs : CalcAgain(c)

SpecCalc == InitCalc /\ [][NextCalc]_vars

-----------------------------------------------------------------------------
(* The flow, lines 364-388, on a bucket of station-year files *)

SomeParams ==
    [list_size : {1, 2}, total_processed : {2}, min_old : {1},
     time_less_than : BOOLEAN, calc_all : BOOLEAN]

FlowBodies == {ValidBody, NonUniqueBody, NoColumnBody}

FlowKeys == {DataKey("1929", "01"), DataKey("1930", "01")}

\* the buckets of the flow: station-year files written this minute, and
\* perhaps the summary of 1929, written up to MaxAge minutes ago
FlowBuckets ==
    {d @@ e : d \in Buckets(FlowKeys, FlowBodies),
              e \in {<<>>} \cup
                    {SummaryKey(<<"1929">>) :> Object(SummaryBody(<<>>), 0 - age, <<>>) :
                        age \in 0..MaxAge}}

InitFlow ==
    /\ store \in FlowBuckets
    /\ store0 = store
    /\ now = 0
    /\ call = IdleCall
    /\ params \in SomeParams
    /\ flowpc = "t1"
    /\ folders = <<>>
    /\ listing = <<>>
    /\ batches = <<>>
    /\ workers = <<>>
    /\ donefiles = IdleTask
    /\ calcs = <<>>
    /\ log = {}

NextFlow ==
    \/ FetchFolders
    \/ \E i \in DOMAIN listing : ListYear(i)
    \/ PrepBatches
    \/ \E w \in DOMAIN workers : WorkerSkip(w)
    \/ \E w \in DOMAIN workers : WorkerGet1(w)
    \/ \E w \in DOMAIN workers : WorkerGet2(w)
    \/ \E w \in DOMAIN workers : WorkerHead(w)
    \/ \E w \in DOMAIN workers : WorkerCopyFrom(w)
    \/ \E w \in DOMAIN workers : WorkerMove(w)
    \/ \E w \in DOMAIN workers : WorkerRetry(w)
    \/ FilesDone
    \/ FilesDoneRetry
    \/ \E c \in DOMAIN calcs : CalcStart(c)
    \/ \E c \in DOMAIN calcs : CalcGet(c)
    \/ \E c \in DOMAIN calcs : CalcPut(c)
    \/ \E c \in DOMAIN calcs : CalcRetry(c)

SpecFlow == InitFlow /\ [][NextFlow]_vars

-----------------------------------------------------------------------------
(* The validation stage of the flow, lines 372-377 (t1 to t4), on a bucket *)
(* where the name of one folder may begin with the name of another.        *)

CleanKeys == {DataKey("1929", "01"), SubYear \o <<SEP, "01", DOT, "csv">>, FolderMarker}

InitClean ==
    /\ store \in Buckets(CleanKeys, FlowBodies)
    /\ store0 = store
    /\ now = 0
    /\ call = IdleCall
    /\ params \in [list_size : {1, 2}, total_processed : {2, 3}, min_old : {1},
                   time_less_than : {TRUE}, calc_all : {FALSE}]
    /\ flowpc = "t1"
    /\ folders = <<>>
    /\ listing = <<>>
    /\ batches = <<>>
    /\ workers = <<>>
    /\ donefiles = IdleTask
    /\ calcs = <<>>
    /\ log = {}

NextClean ==
    \/ FetchFolders
    \/ \E i \in DOMAIN listing : ListYear(i)
    \/ PrepBatches
    \/ \E w \in DOMAIN workers : WorkerSkip(w)
    \/ \E w \in DOMAIN workers : WorkerGet1(w)
    \/ \E w \in DOMAIN workers : WorkerGet2(w)
    \/ \E w \in DOMAIN workers : WorkerHead(w)
    \/ \E w \in DOMAIN workers : WorkerCopyFrom(w)
    \/ \E w \in DOMAIN workers : WorkerMove(w)
    \/ \E w \in DOMAIN workers : WorkerRetry(w)

SpecClean == InitClean /\ [][NextClean]_vars

-----------------------------------------------------------------------------
(* Properties of move_s3_file, checked under SpecMove *)

CallOver == call.pc \in {"returned", "raised"}

OneSeparator(k) == Cardinality({i \in 1..Len(k) : k[i] = SEP}) = 1

\* "_data_error/{year}-{id}-{r}.csv" for a key year/id.ext, read off the
\* key itself: year is what precedes the separator, id what lies between
\* the separator and the first dot
QuarantineName(k, r) ==
    LET p == CHOOSE i \in 1..Len(k) : k[i] = SEP
        rest == SubSeq(k, p + 1, Len(k))
        dots == {i \in 1..Len(rest) : rest[i] = DOT}
        q == IF dots = {} THEN Len(rest) + 1 ELSE MinOf(dots)
    IN  <<"_data_error", SEP>> \o SubSeq(k, 1, p - 1) \o <<DASH>>
            \o SubSeq(rest, 1, q - 1) \o <<DASH, r, DOT, "csv">>

\* C4: when move_s3_file(k, r) returns for a key k = year/id.ext that
\* existed when it was called, k is gone, _data_error/{year}-{id}-{r}.csv
\* holds the body k had, and the call added no other entry under
\* _data_error/ (but the folder marker).
C4_MoveQuarantines ==
    (/\ call.pc = "returned"
     /\ OneSeparator(call.filename)
     /\ call.filename \in DOMAIN call.entry[1])
    => /\ call.filename \notin DOMAIN store
       /\ QuarantineName(call.filename, call.note) \in DOMAIN store
       /\ store[QuarantineName(call.filename, call.note)].body
              = call.entry[1][call.filename].body
       /\ {k \in DOMAIN store : StartsWith(k, ErrorMarker)} \ DOMAIN call.entry[1]
              \subseteq {QuarantineName(call.filename, call.note), ErrorMarker}

C4_Witness ==
    /\ call.pc = "returned"
    /\ call.n = 1
    /\ call.filename = DataKey("1929", "01")
    /\ call.filename \in DOMAIN call.entry[1]
    /\ call.note = "non_unique_spatial"

SameBodies(s1, s2) ==
    /\ DOMAIN s1 = DOMAIN s2
    /\ \A k \in DOMAIN s1 : s1[k].body = s2[k].body

\* C5 (as claimed): a second move_s3_file on a key and reason whose first
\* call moved the object away raises nothing and leaves the bucket as the
\* first call left it.
C5_SecondCallNoOp ==
    (/\ CallOver
     /\ call.n = 2
     /\ OneSeparator(call.filename)
     /\ call.first[1].pc = "returned"
     /\ call.first[1].note = call.note
     /\ QuarantineName(call.filename, call.note) \in DOMAIN call.first[1].store)
    => /\ call.pc = "returned"
       /\ SameBodies(store, call.first[1].store)

-----------------------------------------------------------------------------
(* Verdicts of process_year_files, checked under SpecValidate *)

\* the child w is through with the j-th key of its batch: it went on to a
\* later key, ended, or was stopped at this key by an exception
Through(w, j) ==
    \/ workers[w].pc = "success"
    \/ workers[w].i > j
    \/ workers[w].i = j /\ workers[w].pc \in {"retrying", "failed"}

StoppedAt(w, j) == workers[w].i = j /\ workers[w].pc \in {"retrying", "failed"}

\* the station-year files the run found in batch w at position j
StationFile(w, j) ==
    /\ j \in 1..Len(workers[w].files)
    /\ workers[w].files[j] \in DataKeys
    /\ workers[w].files[j] \in DOMAIN store0

TwoValues(column) == \E i, j \in 1..Len(column) : column[i] # column[j]

OneValue(column) ==
    /\ column # <<>>
    /\ \A i \in 1..Len(column) : column[i] = column[1] /\ column[i] # NAN

Quarantined(f, note) ==
    /\ f \notin DOMAIN store
    /\ QuarantineName(f, note) \in DOMAIN store
    /\ store[QuarantineName(f, note)].body = store0[f].body

Logged(f, op) == \E e \in log : e.task = "clean" /\ e.file = f /\ e.op = op

MovedAs(f, note) ==
    \E e \in log : e.task = "clean" /\ e.file = f /\ e.op = "put" /\ e.note = note

\* C1 (as claimed): a station-year file with two or more distinct values
\* in some spatial column is quarantined as non_unique_spatial, is never
\* touched and never moved as missing_spatial, whatever else its header
\* and cells are.
C1_NonUniqueVerdict ==
    \A w \in DOMAIN workers : \A j \in 1..Len(workers[w].files) :
        LET f == workers[w].files[j]
        IN  (/\ StationFile(w, j)
             /\ Through(w, j)
             /\ store0[f].body.kind = "csv"
             /\ \E c \in DOMAIN store0[f].body.cols : TwoValues(store0[f].body.cols[c]))
            => /\ Quarantined(f, "non_unique_spatial")
               /\ ~Logged(f, "touch")
               /\ ~MovedAs(f, "missing_spatial")

\* C2 (as claimed): a station-year file whose four spatial columns are
\* there and hold one value each is Valid: it keeps its key and body, gets
\* no quarantine entry, and its metadata is replaced by the copy in place.
C2_ValidVerdict ==
    \A w \in DOMAIN workers : \A j \in 1..Len(workers[w].files) :
        LET f == workers[w].files[j]
        IN  (/\ StationFile(w, j)
             /\ Through(w, j)
             /\ store0[f].body.kind = "csv"
             /\ DOMAIN store0[f].body.cols = ColSet
             /\ \A c \in ColSet : OneValue(store0[f].body.cols[c]))
            => /\ f \in DOMAIN store
               /\ store[f].body = store0[f].body
               /\ \A note \in Notes : QuarantineName(f, note) \notin DOMAIN store
               /\ Logged(f, "touch")

\* C3 (as claimed): a station-year file whose header lacks a spatial
\* column, none of the columns it has holding two values, is quarantined
\* as missing_spatial and the batch goes on.
C3_MissingColumnVerdict ==
    \A w \in DOMAIN workers : \A j \in 1..Len(workers[w].files) :
        LET f == workers[w].files[j]
        IN  (/\ StationFile(w, j)
             /\ Through(w, j)
             /\ store0[f].body.kind = "csv"
             /\ DOMAIN store0[f].body.cols # ColSet
             /\ \A c \in DOMAIN store0[f].body.cols : ~TwoValues(store0[f].body.cols[c]))
            => /\ Quarantined(f, "missing_spatial")
               /\ ~StoppedAt(w, j)

\* C7 (as claimed): a key that is gone when the child reads it is routed
\* to move_s3_file under its own key with the no_such_key_error reason
\* and does not stop the batch.
C7_NotFoundContinues ==
    \A w \in DOMAIN workers :
        workers[w].miss
        => /\ workers[w].pc \notin {"retrying", "failed"}
           /\ workers[w].pc \in {"put", "copy", "delete"}
              => /\ workers[w].filename = CurFile(w)
                 /\ workers[w].note = "no_such_key_error"

\* C8 (as claimed): when the batch has finished, a station-year file that
\* was empty or did not parse is gone from its key and has a quarantine
\* entry for its year and station, and no object outside the batch is
\* deleted.
C8_MalformedQuarantined ==
    \A w \in DOMAIN workers : \A j \in 1..Len(workers[w].files) :
        LET f == workers[w].files[j]
        IN  (/\ StationFile(w, j)
             /\ workers[w].pc = "success"
             /\ store0[f].body.kind \in {"empty", "bad"})
            => /\ f \notin DOMAIN store
               /\ \E note \in Notes : QuarantineName(f, note) \in DOMAIN store
               /\ \A k \in DOMAIN store0 \ DOMAIN store :
                      \E i \in 1..Len(workers[w].files) : workers[w].files[i] = k

-----------------------------------------------------------------------------
(* Properties of the flow, checked under SpecFlow *)

CalcCalls(c) == {e \in log : e.task = "calc" /\ e.idx = c /\ e.op \in {"list", "get", "put"}}

\* C9 (as claimed): with calc_all false, a year whose summary object
\* year_average/avg_{Y}.csv is in the bucket, whenever it was last
\* modified and whatever min_old and time_less_than are, is aggregated
\* with no list, read or write call, and the summary is left as it was.
C9_SkipIfExists ==
    \A c \in DOMAIN calcs :
        (~params.calc_all /\ SummaryKey(folders[c]) \in DOMAIN store0)
        => /\ CalcCalls(c) = {}
           /\ SummaryKey(folders[c]) \in DOMAIN store
           /\ store[SummaryKey(folders[c])] = store0[SummaryKey(folders[c])]

\* C10: no child of calculate_year_csv issues a store call before every
\* child of process_year_files has ended.
C10_Barrier ==
    (\E c \in DOMAIN calcs : CalcCalls(c) # {})
    => \A w \in DOMAIN workers : workers[w].pc \in {"success", "failed"}

C10_Witness ==
    /\ Len(workers) >= 2
    /\ \E e \in log : e.task = "clean" /\ e.op = "touch"
    /\ \E e \in log : e.task = "clean" /\ e.op = "copy"
    /\ \E c \in DOMAIN calcs : \E e \in CalcCalls(c) : e.op = "get"

\* the two namespaces that hold no station-year files
Namespaces == {<<"year_average">>, <<"_data_error">>}

\* C17 (as claimed): no child of calculate_year_csv reads a key under
\* year_average/ or _data_error/, lists either of them or writes a summary
\* named for one of them, although both are folders of the bucket.
C17_DataFilesOnly ==
    \A e \in log :
        e.task = "calc"
        => /\ e.op = "get" => Split(e.key, SEP)[1] \notin Namespaces
           /\ e.op = "list" => e.key \notin Namespaces
           /\ e.op = "put" => e.key \notin {SummaryKey(n) : n \in Namespaces}

-----------------------------------------------------------------------------
(* Properties of aws_lists_prep_for_map, checked under SpecBatch *)

\* the lists handed to t3_map_prep_l, in the order of the folders
KeyLists == [i \in DOMAIN listing |-> listing[i].result]

\* the keys of the lists one after the other: element j of list i comes
\* after every element of the lists before i and the j - 1 before it
RECURSIVE LenBefore(_, _)
LenBefore(ls, i) == IF i <= 1 THEN 0 ELSE LenBefore(ls, i - 1) + Len(ls[i - 1])

Kept(ls, M) ==
    IF M < LenBefore(ls, Len(ls) + 1) THEN M ELSE LenBefore(ls, Len(ls) + 1)

\* C11: the chunks of t3_map_prep_l, one after the other, are the first M
\* keys of the lists in their order; every chunk but the last holds C keys,
\* the last at least one and at most C.
C11_BatchingLossless ==
    flowpc = "t4" =>
        LET C == params.list_size
            n == Kept(KeyLists, params.total_processed)
        IN  /\ \A i \in DOMAIN KeyLists : \A j \in 1..Len(KeyLists[i]) :
                 LET q == LenBefore(KeyLists, i) + j
                 IN  q <= n =>
                       /\ ((q - 1) \div C) + 1 \in DOMAIN batches
                       /\ ((q - 1) % C) + 1 \in DOMAIN batches[((q - 1) \div C) + 1]
                       /\ batches[((q - 1) \div C) + 1][((q - 1) % C) + 1] = KeyLists[i][j]
            /\ Len(batches) * C >= n
            /\ \A b \in DOMAIN batches :
                 /\ batches[b] # <<>>
                 /\ b < Len(batches) => Len(batches[b]) = C
                 /\ b = Len(batches) => Len(batches[b]) = n - (b - 1) * C

\* three keys cut to chunks of two: a full chunk and a short last one
C11_Witness ==
    /\ flowpc = "t4"
    /\ params.list_size = 2
    /\ params.total_processed = 3
    /\ Len(KeyLists) = 2
    /\ Len(KeyLists[1]) = 2
    /\ Len(KeyLists[2]) = 2
    /\ Len(batches) = 2
    /\ Len(batches[2]) = 1

-----------------------------------------------------------------------------
(* Properties of calculate_year_csv, checked under SpecCalc *)

\* the station-year files of a year: the keys year/name
YearFiles(s, year) ==
    {k \in DOMAIN s : /\ Len(Split(k, SEP)) = 2
                      /\ Split(k, SEP)[1] = year
                      /\ Split(k, SEP)[2] # <<>>}

\* a file the validation passes and the aggregation can read: a table
\* with the metric columns whose four spatial columns hold one value each
ReadableBody(b) ==
    /\ b.kind = "csv"
    /\ b.meas
    /\ DOMAIN b.cols = ColSet
    /\ \A c \in ColSet : b.cols[c] # <<>> /\ OneValue(b.cols[c])

\* the row of one such file: its key and the value of each spatial column
RowOf(k, b) == [site |-> k, spatial |-> [i \in 1..Len(SpatialCols) |-> <<b.cols[SpatialCols[i]][1]>>]]

\* the rows of the files K in the order of their keys
RowsOf(s, K) == [i \in 1..Cardinality(K) |-> RowOf(Sorted(K)[i], s[Sorted(K)[i]].body)]

\* a run of child c on its folder is over and was not one that skips
RunOver(c) ==
    /\ calcs[c].pc \in {"success", "failed"}
    /\ params.calc_all \/ SummaryKey(folders[c]) \notin DOMAIN store0

\* C12 (as claimed): a run on a year whose N station-year files are all
\* valid leaves a summary of the header and N rows, one per file in the
\* order of the keys.
C12_OneRowPerValidFile ==
    \A c \in DOMAIN calcs :
        (RunOver(c) /\ \A k \in YearFiles(store0, folders[c]) : ReadableBody(store0[k].body))
        => /\ SummaryKey(folders[c]) \in DOMAIN store
           /\ store[SummaryKey(folders[c])].body
                = SummaryBody(RowsOf(store0, YearFiles(store0, folders[c])))

\* the keys a run on a folder reads: those listed under the prefix that
\* are longer than six characters
KeysRead(s, year_folder) == {k \in KeysUnder(s, year_folder) : CharLen(k) > 6}

\* C13 (as claimed): a run on a folder with keys under it, whatever the
\* files it reads hold (nothing, text that is no CSV, a table that lacks a
\* column), ends with the summary written, one row for every file that
\* could be read.
C13_BadFileSkipped ==
    \A c \in DOMAIN calcs :
        (RunOver(c) /\ KeysUnder(store0, folders[c]) # {})
        => /\ calcs[c].pc = "success"
           /\ SummaryKey(folders[c]) \in DOMAIN store
           /\ store[SummaryKey(folders[c])].body
                = SummaryBody(RowsOf(store0, {k \in KeysRead(store0, folders[c]) :
                                                 ReadableBody(store0[k].body)}))

\* C14: with calc_all true, every run of calculate_year_csv that ends well,
\* the first and each one after it, leaves under the year's summary key
\* the object made of the rows of the files it reads, whatever summary was
\* there before, and leaves every other object as it was.
C14_SummaryRecomputed ==
    \A c \in DOMAIN calcs :
        (params.calc_all /\ calcs[c].pc = "success")
        => /\ SummaryKey(folders[c]) \in DOMAIN store
           /\ store[SummaryKey(folders[c])]
                = Object(SummaryBody(RowsOf(store0, {k \in KeysRead(store0, folders[c]) :
                                                        ReadableBody(store0[k].body)})),
                         now, <<>>)
           /\ \A k \in DOMAIN store0 \ {SummaryKey(folders[c])} :
                 k \in DOMAIN store /\ store[k] = store0[k]
           /\ DOMAIN store \subseteq DOMAIN store0 \cup {SummaryKey(folders[c])}

\* a second run has ended on a year of two files whose summary held a
\* line of an earlier run
C14_Witness ==
    \E c \in DOMAIN calcs :
        /\ params.calc_all
        /\ calcs[c].pc = "success"
        /\ calcs[c].runs = 2
        /\ Len(calcs[c].content) = 2
        /\ SummaryKey(folders[c]) \in DOMAIN store0
        /\ store0[SummaryKey(folders[c])].body.rows = <<StaleRow>>

-----------------------------------------------------------------------------
(* Properties of process_year_files over a batch, checked under            *)
(* SpecValidate                                                            *)

\* the child has ended, by returning or by an exception its retries
\* did not cure
Finished(w) == workers[w].pc \in {"success", "failed"}

\* the two terminal states of a file
Touched(f) == f \in DOMAIN store /\ Logged(f, "touch")

InQuarantine(f) ==
    /\ f \notin DOMAIN store
    /\ \E note \in Notes : QuarantineName(f, note) \in DOMAIN store

\* C15 (as claimed): when the child has ended, every station-year file of
\* its batch is either touched at its key or gone from it with a
\* quarantine entry, whatever the other files of the batch held.
C15_OneTerminalState ==
    \A w \in DOMAIN workers : \A j \in 1..Len(workers[w].files) :
        (StationFile(w, j) /\ Finished(w))
        => (Touched(workers[w].files[j]) # InQuarantine(workers[w].files[j]))

\* the store calls of move_s3_file
MoveOps == {"put", "copy", "delete"}

\* C16 (as claimed): every store call of a move_s3_file that the child
\* makes while it handles file f was given f's own key.
C16_OwnKeyRouted ==
    \A e \in log : (e.task = "clean" /\ e.op \in MoveOps) => e.key = e.file

\* a key that is no station-year file: at most five characters, or under
\* year_average/ or _data_error/
StructuralMarker(k) ==
    \/ CharLen(k) <= 5
    \/ StartsWith(k, <<"year_average", SEP>>)
    \/ StartsWith(k, <<"_data_error", SEP>>)

C19_NothingDiscarded ==
    \A w \in DOMAIN workers : \A j \in 1..Len(workers[w].files) :
        LET f == workers[w].files[j]
        IN  (f \in DOMAIN store0 /\ ~StructuralMarker(f))
            => \/ f \in DOMAIN store /\ store[f].body = store0[f].body
               \/ \E q \in DOMAIN store :
                     /\ StartsWith(q, <<"_data_error", SEP>>)
                     /\ q # ErrorMarker
                     /\ store[q].body = store0[f].body

\* C19 (amended): at every moment of the batch, the moment between the copy and the
\* delete of a move included, the content of every station-year file of
\* the batch is at its key or under its quarantine key.
C19_ContentKept ==
    \A w \in DOMAIN workers : \A j \in 1..Len(workers[w].files) :
        LET f == workers[w].files[j]
        IN  StationFile(w, j)
            => \/ f \in DOMAIN store /\ store[f].body = store0[f].body
               \/ \E note \in Notes :
                     /\ QuarantineName(f, note) \in DOMAIN store
                     /\ store[QuarantineName(f, note)].body = store0[f].body

\* two files with different contents have been moved under the same
\* reason, and a third move is between its copy and its delete
C19_Witness ==
    \E w \in DOMAIN workers :
        /\ workers[w].files = <<DataKey("1929", "01"), DataKey("1929", "02")>>
        /\ store0[DataKey("1929", "01")].body # store0[DataKey("1929", "02")].body
        /\ DataKey("1929", "01") \notin DOMAIN store
        /\ QuarantineName(DataKey("1929", "01"), "non_unique_spatial") \in DOMAIN store
        /\ workers[w].i = 2
        /\ workers[w].pc = "delete"
        /\ workers[w].note = "non_unique_spatial"
        /\ QuarantineName(DataKey("1929", "02"), "non_unique_spatial") \in DOMAIN store
        /\ DataKey("1929", "02") \in DOMAIN store

-----------------------------------------------------------------------------
(* Properties of the batches of the flow, checked under SpecClean *)

\* C20 (as claimed): no key is in two batches, and no two children of
\* process_year_files issue a store call on the same station-year key.
C20_BatchesDisjoint ==
    /\ \A v, w \in DOMAIN batches :
         v # w => \A i \in DOMAIN batches[v], j \in DOMAIN batches[w] :
                     batches[v][i] # batches[w][j]
    /\ \A d, e \in log :
         (/\ d.task = "clean"
          /\ e.task = "clean"
          /\ d.idx # e.idx
          /\ d.op \in {"get", "head", "touch", "copy", "delete"}
          /\ e.op \in {"get", "head", "touch", "copy", "delete"})
         => d.key # e.key

====
